---- MODULE Spec2Model ----
(***************************************************************************)
(* The radeontop block of i3status-rust (src/blocks/radeontop.rs).         *)
(*                                                                         *)
(* ConfigBlock::new spawns a sampling thread and returns the block.  The   *)
(* sampling thread launches the radeontop process, parses each line of its *)
(* output into a RadeontopDataDump, stores it in the shared slot           *)
(* `last_update` (Arc<Mutex<Option<RadeontopDataDump>>>) and sends a Task  *)
(* to the scheduler.  Block::update reads the slot, sets the widget state  *)
(* from two threshold ladders and renders the value mapping into the       *)
(* widget text.                                                            *)
(*                                                                         *)
(* Fractions (gpu, vram.used_percentage) are carried in thousandths: the   *)
(* f64 0.91 is the integer 910, so that (x * 100f64).round() is a real     *)
(* rounding step.  Option<T> is a sequence of length 0 (None) or 1 (Some). *)
(***************************************************************************)
EXTENDS Integers, Sequences, FiniteSets, TLC

VARIABLES
    cfg,         \* block_config: the six threshold cutoffs
    newPc,       \* position of ConfigBlock::new
    prodPc,      \* position of the sampling thread
    fault,       \* the panic that ended the sampling thread, "none" if none
    launches,    \* number of times the radeontop process was launched
    lineNo,      \* number of lines taken from the process's stdout
    eof,         \* lines.next() has returned None
    pending,     \* the loop variable `line`: the record just parsed
    slot,        \* last_update: Option<RadeontopDataDump>
    lockHolder,  \* owner of the MutexGuard of last_update
    writes,      \* number of completed slot writes
    sent,        \* number of Tasks sent on tx_update_request
    lastDone,    \* history: the slot value of the most recent completed write
    accPc,       \* position of Block::update
    accRet,      \* result of the most recent Block::update call
    accAt,       \* history: lineNo when the running/last call took the lock
    rendered,    \* what self.format.render returned in the last call that got there
    seen,        \* history: what the scrutinee of `if let` matched
    values,      \* the local `values`: Option of the value mapping
    gpuTier,     \* value of the gpu `match` of the last set_state
    vramTier,    \* value of the vram `match` of the last set_state
    stateFrom,   \* history: the record set_state was computed from
    textFrom,    \* history: the record set_text was rendered from
    wState,      \* self.text's state
    wText,       \* self.text's text: Option of the rendered value mapping
    call         \* the last application of a function of formatting/value.rs

vars == <<cfg, newPc, prodPc, fault, launches, lineNo, eof, pending, slot,
          lockHolder, writes, sent, lastDone, accPc, accRet, accAt, rendered,
          seen, values, gpuTier, vramTier, stateFrom, textFrom, wState, wText,
          call>>

\* The variables of the radeontop block.
blockVars == <<cfg, newPc, prodPc, fault, launches, lineNo, eof, pending,
               slot, lockHolder, writes, sent, lastDone, accPc, accRet, accAt,
               rendered, seen, values, gpuTier, vramTier, stateFrom, textFrom,
               wState, wText>>

prodVars == <<prodPc, fault, launches, lineNo, eof, pending, slot, writes, sent,
              lastDone>>
accVars == <<accPc, accRet, accAt, rendered, seen, values, gpuTier, vramTier, stateFrom,
             textFrom, wState, wText>>

-----------------------------------------------------------------------------
(* Bounds and inputs *)

\* Number of lines the radeontop process emits at most before its stdout ends.
MaxLines == 3

\* RadeontopConfig::default_*: the default cutoffs.
DefaultConfig ==
    [gpu_info |-> 30, gpu_warning |-> 60, gpu_critical |-> 90,
     vram_info |-> 30, vram_warning |-> 60, vram_critical |-> 90]

\* A configuration with different ascending cutoffs on the two ladders.
CustomConfig ==
    [gpu_info |-> 40, gpu_warning |-> 70, gpu_critical |-> 91,
     vram_info |-> 20, vram_warning |-> 50, vram_critical |-> 80]

Configs == {DefaultConfig, CustomConfig}

\* The (gpu, vram.used_percentage) pairs a parsed line can carry, thousandths.
Samples ==
    { [gpu |-> 910, vram |-> 0],
      [gpu |-> 100, vram |-> 950],
      [gpu |-> 304, vram |-> 300],
      [gpu |-> 605, vram |-> 205],
      [gpu |-> -4,  vram |-> 796] }

\* RadeontopDataDump: timestamp, gpu and vram.used_percentage of one line.
Record(n, s) == [timestamp |-> n, gpu |-> s.gpu, vram |-> s.vram]

None == << >>
Some(r) == << r >>
IsSome(o) == Len(o) = 1
Unwrap(o) == o[1]

-----------------------------------------------------------------------------
(* Block::update: pure parts *)

\* (x * 100f64).round() as usize: round half away from zero, then a
\* saturating cast (negative values become 0).
RoundPct(m) == IF m < 0 THEN 0 ELSE (m + 5) \div 10

\* One threshold ladder: the inner `match` with its three guards.
Ladder(x, info, warning, critical) ==
    IF x > critical THEN 3
    ELSE IF x > warning THEN 2
    ELSE IF x > info THEN 1
    ELSE 0

VramLadder(c, r) ==
    Ladder(RoundPct(r.vram), c.vram_info, c.vram_warning, c.vram_critical)

GpuLadder(c, r) ==
    Ladder(RoundPct(r.gpu), c.gpu_info, c.gpu_warning, c.gpu_critical)

\* Mutant: the smaller of the two tiers.
Max_Smaller(a, b) == IF a <= b THEN a ELSE b

\* cmp::max
Max(a, b) == IF a >= b THEN a ELSE b

\* The outer `match`: tier -> State; any other number is unreachable!().
StateOf(t) ==
    CASE t = 3 -> "Critical"
      [] t = 2 -> "Warning"
      [] t = 1 -> "Info"
      [] t = 0 -> "Idle"
      [] OTHER -> "unreachable"

\* The errors FormatTemplate::render can return.
RenderErrors == {"ErrUnknownPlaceholder", "ErrBadValue"}

\* The value mapping handed to FormatTemplate::render (percent in tenths).
Values(r) == [gpu |-> r.gpu, vram_used_percentage |-> r.vram]

\* No function of formatting/value.rs has been applied.
NoCall == [op |-> "none"]

-----------------------------------------------------------------------------
Init ==
    /\ cfg \in Configs
    /\ newPc = "start"
    /\ prodPc = "unspawned"
    /\ fault = "none"
    /\ launches = 0
    /\ lineNo = 0
    /\ eof = FALSE
    /\ pending = None
    /\ slot = None
    /\ lockHolder = "none"
    /\ writes = 0
    /\ sent = 0
    /\ lastDone = None
    /\ accPc = "idle"
    /\ accRet = "none"
    /\ accAt = 0
    /\ rendered = "none"
    /\ seen = None
    /\ values = None
    /\ gpuTier = 0
    /\ vramTier = 0
    /\ stateFrom = None
    /\ textFrom = None
    /\ wState = "Idle"
    /\ wText = None
    /\ call = NoCall

-----------------------------------------------------------------------------
(* ConfigBlock::new *)

\* thread::Builder::new().name("radeontop").spawn(..).unwrap()
NewSpawn ==
    /\ newPc = "start"
    /\ newPc' = "build"
    /\ prodPc' = "starting"
    /\ UNCHANGED <<cfg, eof, fault, launches, lineNo, pending, slot, lockHolder,
                   writes, sent, lastDone>>
    /\ UNCHANGED accVars
    /\ UNCHANGED call

\* Mutant: new waits for the launch and returns Ok only if it succeeded.
NewOk_ChecksLaunch ==
    /\ newPc = "build"
    /\ prodPc \notin {"unspawned", "starting"}
    /\ fault # "launch"
    /\ newPc' = "ok"
    /\ UNCHANGED <<cfg, lockHolder>>
    /\ UNCHANGED prodVars
    /\ UNCHANGED accVars
    /\ UNCHANGED call

\* Ok(Radeontop { .. }): with_icon and FormatTemplate::from_string succeed.
NewOk ==
    /\ newPc = "build"
    /\ newPc' = "ok"
    /\ UNCHANGED <<cfg, lockHolder>>
    /\ UNCHANGED prodVars
    /\ UNCHANGED accVars
    /\ UNCHANGED call

\* with_icon("gpu")? or FormatTemplate::from_string(..)? returns the error.
NewErr ==
    /\ newPc = "build"
    /\ newPc' = "err"
    /\ UNCHANGED <<cfg, lockHolder>>
    /\ UNCHANGED prodVars
    /\ UNCHANGED accVars
    /\ UNCHANGED call

-----------------------------------------------------------------------------
(* The sampling thread *)

\* Mutant: a lock that excludes nobody.
LockFree_NoExclusion == TRUE

\* Mutex::lock: blocks until no guard is alive.
LockFree == lockHolder = "none"

\* Mutant: a line that does not parse is skipped and the loop goes on.
Panic_SkipsBadLine(f) ==
    /\ prodPc' = IF f = "parse" THEN "read" ELSE "terminated"
    /\ fault' = f

\* .expect / .unwrap / panic!: the thread unwinds and ends.
Panic(f) ==
    /\ prodPc' = "terminated"
    /\ fault' = f

\* Command::new("radeontop")..spawn() succeeds.
ProdLaunchOk ==
    /\ prodPc = "starting"
    /\ launches' = launches + 1
    /\ prodPc' = "read"
    /\ UNCHANGED <<cfg, eof, newPc, fault, lineNo, pending, slot, lockHolder,
                   writes, sent, lastDone>>
    /\ UNCHANGED accVars
    /\ UNCHANGED call

\* Command::new("radeontop")..spawn() fails: .expect("radeontop failed").
ProdLaunchFault ==
    /\ prodPc = "starting"
    /\ launches' = launches + 1
    /\ Panic("launch")
    /\ UNCHANGED <<cfg, eof, newPc, lineNo, pending, slot, lockHolder, writes,
                   sent, lastDone>>
    /\ UNCHANGED accVars
    /\ UNCHANGED call

\* lines.next() yields a line that serde_json parses into a record.
ProdReadLine ==
    /\ prodPc = "read"
    /\ lineNo < MaxLines
    /\ \E s \in Samples : pending' = Some(Record(lineNo + 1, s))
    /\ lineNo' = lineNo + 1
    /\ prodPc' = "lock"
    /\ UNCHANGED <<cfg, eof, newPc, fault, launches, slot, lockHolder, writes,
                   sent, lastDone>>
    /\ UNCHANGED accVars
    /\ UNCHANGED call

\* Mutant: the line is parsed with the guard alive, so the panic leaves the
\* mutex locked (poisoned).
ProdParseFault_UnderLock ==
    /\ prodPc = "read"
    /\ lineNo < MaxLines
    /\ lockHolder = "none"
    /\ lockHolder' = "prod"
    /\ lineNo' = lineNo + 1
    /\ prodPc' = "terminated"
    /\ fault' = "parse"
    /\ UNCHANGED <<cfg, eof, newPc, launches, pending, slot, writes, sent,
                   lastDone>>
    /\ UNCHANGED accVars
    /\ UNCHANGED call

\* lines.next() yields a line that serde_json rejects: from_str(..).unwrap().
ProdParseFault ==
    /\ prodPc = "read"
    /\ lineNo < MaxLines
    /\ lineNo' = lineNo + 1
    /\ Panic("parse")
    /\ UNCHANGED <<cfg, eof, newPc, launches, pending, slot, lockHolder, writes,
                   sent, lastDone>>
    /\ UNCHANGED accVars
    /\ UNCHANGED call

\* Mutant: the `for` ends and the closure returns.
ProdStreamEnd_Returns ==
    /\ prodPc = "read"
    /\ eof' = TRUE
    /\ prodPc' = "terminated"
    /\ fault' = "none"
    /\ UNCHANGED <<cfg, newPc, launches, lineNo, pending, slot, lockHolder,
                   writes, sent, lastDone>>
    /\ UNCHANGED accVars
    /\ UNCHANGED call

\* lines.next() yields None: the `for` ends and panic!("radeontop died") runs.
ProdStreamEnd ==
    /\ prodPc = "read"
    /\ eof' = TRUE
    /\ Panic("stream_end")
    /\ UNCHANGED <<cfg, newPc, launches, lineNo, pending, slot, lockHolder,
                   writes, sent, lastDone>>
    /\ UNCHANGED accVars
    /\ UNCHANGED call

\* last_update.lock().unwrap()
ProdLock ==
    /\ prodPc = "lock"
    /\ LockFree
    /\ lockHolder' = "prod"
    /\ prodPc' = "store"
    /\ UNCHANGED <<cfg, eof, newPc, fault, launches, lineNo, pending, slot, writes,
                   sent, lastDone>>
    /\ UNCHANGED accVars
    /\ UNCHANGED call

\* Mutant: the guard is bound to a variable of the loop body and is still
\* alive during the send.
ProdStore_KeepsLock ==
    /\ prodPc = "store"
    /\ slot' = pending
    /\ lastDone' = pending
    /\ pending' = None
    /\ writes' = writes + 1
    /\ prodPc' = "send"
    /\ UNCHANGED <<cfg, eof, newPc, fault, launches, lineNo, sent, lockHolder>>
    /\ UNCHANGED accVars
    /\ UNCHANGED call

\* *guard = Some(line); the guard is a temporary of this statement.
ProdStore ==
    /\ prodPc = "store"
    /\ slot' = pending
    /\ lastDone' = pending
    /\ pending' = None
    /\ writes' = writes + 1
    /\ lockHolder' = "none"
    /\ prodPc' = "send"
    /\ UNCHANGED <<cfg, eof, newPc, fault, launches, lineNo, sent>>
    /\ UNCHANGED accVars
    /\ UNCHANGED call

\* Mutant: the loop goes on without the Task having been sent.
ProdSendOk_Dropped ==
    /\ prodPc = "send"
    /\ prodPc' = "read"
    /\ UNCHANGED <<cfg, eof, newPc, fault, launches, lineNo, pending, slot,
                   lockHolder, writes, sent, lastDone>>
    /\ UNCHANGED accVars
    /\ UNCHANGED call

\* tx_update_request.send(Task { id, update_time }) succeeds.
ProdSendOk ==
    /\ prodPc = "send"
    /\ sent' = sent + 1
    /\ prodPc' = "read"
    /\ UNCHANGED <<cfg, eof, newPc, fault, launches, lineNo, pending, slot,
                   lockHolder, writes, lastDone>>
    /\ UNCHANGED accVars
    /\ UNCHANGED call

\* tx_update_request.send(..) fails (receiver gone): .unwrap().
ProdSendFault ==
    /\ prodPc = "send"
    /\ Panic("send")
    /\ UNCHANGED <<cfg, eof, newPc, launches, lineNo, pending, slot, lockHolder,
                   writes, sent, lastDone>>
    /\ UNCHANGED accVars
    /\ UNCHANGED call

-----------------------------------------------------------------------------
(* Block::update *)

\* self.last_update.lock().unwrap(): the guard is a temporary of the
\* `if let` scrutinee and lives until the end of the `if let` statement.
AccLock ==
    /\ accPc = "idle"
    /\ newPc = "ok"
    /\ LockFree
    /\ lockHolder' = "acc"
    /\ accPc' = "match"
    /\ accRet' = "running"
    /\ accAt' = lineNo
    /\ UNCHANGED <<cfg, rendered, newPc, seen, values, gpuTier, vramTier, stateFrom,
                   textFrom, wState, wText>>
    /\ UNCHANGED prodVars
    /\ UNCHANGED call

\* Mutant: the empty case returns Update::Every(self.update_interval).
AccEmpty_Every ==
    /\ accPc = "match"
    /\ slot = None
    /\ seen' = None
    /\ lockHolder' = "none"
    /\ accRet' = "Every"
    /\ accPc' = "idle"
    /\ UNCHANGED <<cfg, rendered, accAt, newPc, values, gpuTier, vramTier, stateFrom,
                   textFrom, wState, wText>>
    /\ UNCHANGED prodVars
    /\ UNCHANGED call

\* The slot is None: the `if let` body is skipped, Ok(Some(Update::Once)).
AccEmpty ==
    /\ accPc = "match"
    /\ slot = None
    /\ seen' = None
    /\ lockHolder' = "none"
    /\ accRet' = "Once"
    /\ accPc' = "idle"
    /\ UNCHANGED <<cfg, rendered, accAt, newPc, values, gpuTier, vramTier, stateFrom, textFrom,
                   wState, wText>>
    /\ UNCHANGED prodVars
    /\ UNCHANGED call

\* The slot is Some(last_update): self.text.set_state(match { max(..) } ..).
AccSetState ==
    /\ accPc = "match"
    /\ IsSome(slot)
    /\ seen' = slot
    /\ vramTier' = VramLadder(cfg, Unwrap(slot))
    /\ gpuTier' = GpuLadder(cfg, Unwrap(slot))
    /\ wState' = StateOf(Max(vramTier', gpuTier'))
    /\ stateFrom' = slot
    /\ accPc' = "values"
    /\ UNCHANGED <<cfg, rendered, accAt, newPc, lockHolder, accRet, values, textFrom, wText>>
    /\ UNCHANGED prodVars
    /\ UNCHANGED call

\* let values = map!(..), read through the reference into the slot.
AccValues ==
    /\ accPc = "values"
    /\ values' = Some(Values(Unwrap(slot)))
    /\ accPc' = "render"
    /\ UNCHANGED <<cfg, rendered, accAt, newPc, lockHolder, accRet, seen, gpuTier, vramTier,
                   stateFrom, textFrom, wState, wText>>
    /\ UNCHANGED prodVars
    /\ UNCHANGED call

\* Mutant: the record is moved out of the slot (Option::take) when rendered.
AccRenderOk_Takes ==
    /\ accPc = "render"
    /\ rendered' = "Ok"
    /\ wText' = values
    /\ textFrom' = slot
    /\ values' = None
    /\ slot' = None
    /\ lockHolder' = "none"
    /\ accRet' = "Once"
    /\ accPc' = "idle"
    /\ UNCHANGED <<cfg, accAt, newPc, seen, gpuTier, vramTier, stateFrom, wState>>
    /\ UNCHANGED <<prodPc, fault, launches, lineNo, eof, pending, writes, sent, lastDone>>
    /\ UNCHANGED call

\* self.format.render(&values) is Ok: set_text, then Ok(Some(Update::Once)).
AccRenderOk ==
    /\ accPc = "render"
    /\ rendered' = "Ok"
    /\ wText' = values
    /\ textFrom' = slot
    /\ values' = None
    /\ lockHolder' = "none"
    /\ accRet' = "Once"
    /\ accPc' = "idle"
    /\ UNCHANGED <<cfg, accAt, newPc, seen, gpuTier, vramTier, stateFrom, wState>>
    /\ UNCHANGED prodVars
    /\ UNCHANGED call

\* Mutant: the render error is dropped and the call reports success.
AccRenderErr_Swallowed ==
    /\ accPc = "render"
    /\ \E e \in RenderErrors : rendered' = e
    /\ accRet' = "Once"
    /\ values' = None
    /\ lockHolder' = "none"
    /\ accPc' = "idle"
    /\ UNCHANGED <<cfg, accAt, newPc, seen, gpuTier, vramTier, stateFrom,
                   textFrom, wState, wText>>
    /\ UNCHANGED prodVars
    /\ UNCHANGED call

\* self.format.render(&values) is Err: `?` returns it, the guard is dropped.
AccRenderErr ==
    /\ accPc = "render"
    /\ \E e \in RenderErrors : rendered' = e /\ accRet' = e
    /\ values' = None
    /\ lockHolder' = "none"
    /\ accPc' = "idle"
    /\ UNCHANGED <<cfg, accAt, newPc, seen, gpuTier, vramTier, stateFrom, textFrom,
                   wState, wText>>
    /\ UNCHANGED prodVars
    /\ UNCHANGED call

-----------------------------------------------------------------------------
(* formatting/value.rs: strings and units *)

\* A String is a sequence of chars; a char is named by a one-element string.
\* "DEG" (the degree sign) and "E_ACUTE" take two bytes in UTF-8, every
\* other char one.
TwoByteChars == {"DEG", "E_ACUTE"}

ByteLen(ch) == IF ch \in TwoByteChars THEN 2 ELSE 1

\* String::len: the length in bytes.
RECURSIVE StrLen(_)
StrLen(str) == IF str = << >> THEN 0 ELSE ByteLen(Head(str)) + StrLen(Tail(str))

NamedUnits ==
    {"BitsPerSecond", "BytesPerSecond", "Percents", "Degrees", "Seconds",
     "Watts", "Hertz", "Bytes", "None"}

\* enum Unit: a named variant, or Other(text).
Unit(tag) == [tag |-> tag, text |-> << >>]
Other(text) == [tag |-> "Other", text |-> text]

\* Mutant: "B" is taken for bytes per second.
UnitFromString_BytesConfused(str) ==
    CASE str = <<"B", "i", "/", "s">> -> Unit("BitsPerSecond")
      [] str = <<"B", "/", "s">> -> Unit("BytesPerSecond")
      [] str = <<"%">> -> Unit("Percents")
      [] str = <<"DEG">> -> Unit("Degrees")
      [] str = <<"s">> -> Unit("Seconds")
      [] str = <<"W">> -> Unit("Watts")
      [] str = <<"H", "z">> -> Unit("Hertz")
      [] str = <<"B">> -> Unit("BytesPerSecond")
      [] str = << >> -> Unit("None")
      [] OTHER -> Other(str)

\* Unit::from_string
UnitFromString(str) ==
    CASE str = <<"B", "i", "/", "s">> -> Unit("BitsPerSecond")
      [] str = <<"B", "/", "s">> -> Unit("BytesPerSecond")
      [] str = <<"%">> -> Unit("Percents")
      [] str = <<"DEG">> -> Unit("Degrees")
      [] str = <<"s">> -> Unit("Seconds")
      [] str = <<"W">> -> Unit("Watts")
      [] str = <<"H", "z">> -> Unit("Hertz")
      [] str = <<"B">> -> Unit("Bytes")
      [] str = << >> -> Unit("None")
      [] OTHER -> Other(str)

\* Unit::to_string
UnitToString(u) ==
    CASE u.tag = "BitsPerSecond" -> <<"B", "i", "/", "s">>
      [] u.tag = "BytesPerSecond" -> <<"B", "/", "s">>
      [] u.tag = "Percents" -> <<"%">>
      [] u.tag = "Degrees" -> <<"DEG">>
      [] u.tag = "Seconds" -> <<"s">>
      [] u.tag = "Watts" -> <<"W">>
      [] u.tag = "Hertz" -> <<"H", "z">>
      [] u.tag = "Bytes" -> <<"B">>
      [] u.tag = "None" -> << >>
      [] OTHER -> u.text

\* Option::unwrap_or
UnwrapOr(o, d) == IF IsSome(o) THEN Unwrap(o) ELSE d

-----------------------------------------------------------------------------
(* formatting/value.rs: Value::format, text and integer payloads *)

\* The decimal digits of a natural number, as chars.
DigitChar(d) == <<"0", "1", "2", "3", "4", "5", "6", "7", "8", "9">>[d + 1]

RECURSIVE NatToString(_)
NatToString(n) ==
    IF n < 10 THEN <<DigitChar(n)>>
    ELSE NatToString(n \div 10) \o <<DigitChar(n % 10)>>

\* i64::to_string
IntToString(n) == IF n < 0 THEN <<"-">> \o NatToString(-n) ELSE NatToString(n)

\* Mutant: division rounding towards minus infinity.
TruncDiv_Floor(a, b) == a \div b

\* The i64 `/`: the quotient is truncated towards zero.
TruncDiv(a, b) == IF a >= 0 THEN a \div b ELSE -((-a) \div b)

\* The bit/byte conversion of an Integer payload.
ConvertInteger(own, shown, n) ==
    IF own = Unit("BytesPerSecond") /\ shown = Unit("BitsPerSecond") THEN n * 8
    ELSE IF own = Unit("BitsPerSecond") /\ shown = Unit("BytesPerSecond")
         THEN TruncDiv(n, 8)
    ELSE n

\* for _ in text_len..min_width { push(pad_with) }: the pushed chars.
RECURSIVE Padding(_, _, _)
Padding(from, to, ch) ==
    IF from >= to THEN << >> ELSE <<ch>> \o Padding(from + 1, to, ch)

\* The Text arm: the text, then the padding; text.len() counts bytes.
FormatText(text, minWidth, padWith) ==
    text \o Padding(StrLen(text), minWidth, padWith)

\* The Integer arm: the padding, then the converted number.
FormatInteger(own, shown, n, minWidth, padWith) ==
    LET text == IntToString(ConvertInteger(own, shown, n))
    IN  Padding(StrLen(text), minWidth, padWith) \o text

-----------------------------------------------------------------------------
(* formatting/value.rs: format_number *)

\* An f64 is carried as a decimal: (neg, m, e) is -m * 10^e or m * 10^e.
\* Arithmetic on it is exact, where the f64 rounds to 53 bits.
Float(neg, m, e) == [neg |-> neg, m |-> m, e |-> e]

RECURSIVE Pow10(_)
Pow10(n) == IF n <= 0 THEN 1 ELSE 10 * Pow10(n - 1)

NumDigits(n) == Len(NatToString(n))

\* floor(log10(x)) of a positive x.
Log10Floor(x) == NumDigits(x.m) - 1 + x.e

Suffixes == <<"Nano", "Micro", "Milli", "One", "Kilo", "Mega", "Giga", "Tera">>

\* The first `match` of format_number: Suffix -> min_exp_level.
MinExpLevel(suffix) ==
    CASE suffix = "Tera" -> 4
      [] suffix = "Giga" -> 3
      [] suffix = "Mega" -> 2
      [] suffix = "Kilo" -> 1
      [] suffix = "One" -> 0
      [] suffix = "Milli" -> -1
      [] suffix = "Micro" -> -2
      [] suffix = "Nano" -> -3

\* The second `match` of format_number: exp_level -> Suffix.
SuffixOfLevel(level) ==
    CASE level = 4 -> "Tera"
      [] level = 3 -> "Giga"
      [] level = 2 -> "Mega"
      [] level = 1 -> "Kilo"
      [] level = 0 -> "One"
      [] level = -1 -> "Milli"
      [] level = -2 -> "Micro"
      [] OTHER -> "Nano"

\* Suffix::to_string
SuffixToString(suffix) ==
    CASE suffix = "Nano" -> <<"n">>
      [] suffix = "Micro" -> <<"u">>
      [] suffix = "Milli" -> <<"m">>
      [] suffix = "One" -> << >>
      [] suffix = "Kilo" -> <<"K">>
      [] suffix = "Mega" -> <<"M">>
      [] suffix = "Giga" -> <<"G">>
      [] suffix = "Tera" -> <<"T">>

\* Ord::clamp
Clamp(x, lo, hi) == IF x < lo THEN lo ELSE IF x > hi THEN hi ELSE x

\* Mutant: the scale stops at giga.
ExpLevel_StopsAtGiga(raw, minSuffix) ==
    LET lo == MinExpLevel(minSuffix)
        hi == IF lo > 3 THEN lo ELSE 3
    IN  IF raw.m = 0 THEN lo
        ELSE IF raw.neg THEN Clamp(0, lo, hi)
        ELSE Clamp(Log10Floor(raw) \div 3, lo, hi)

\* (raw_value.log10().div_euclid(3.) as i32).clamp(min_exp_level, 4).
\* log10 of 0 is -inf, which the cast saturates to i32::MIN; log10 of a
\* negative number is NaN, which the cast turns into 0.
ExpLevel(raw, minSuffix) ==
    LET lo == MinExpLevel(minSuffix)
    IN  IF raw.m = 0 THEN lo
        ELSE IF raw.neg THEN Clamp(0, lo, 4)
        ELSE Clamp(Log10Floor(raw) \div 3, lo, 4)

\* raw_value / (10f64).powi(exp_level * 3)
Scale(raw, level) == Float(raw.neg, raw.m, raw.e - 3 * level)

\* (value.log10().floor() + 1.0).max(1.0) as isize: f64::max drops a NaN,
\* so a negative value has one digit, and so has 0 (-inf + 1).
IntegerDigits(value) ==
    IF value.m = 0 \/ value.neg THEN 1
    ELSE IF Log10Floor(value) + 1 > 1 THEN Log10Floor(value) + 1 ELSE 1

RECURSIVE Zeros(_)
Zeros(n) == IF n <= 0 THEN << >> ELSE <<"0">> \o Zeros(n - 1)

\* n in exactly `width` digits, zeros in front.
ZeroPadded(n, width) == Zeros(width - NumDigits(n)) \o
                        (IF width = 0 THEN << >> ELSE NatToString(n))

\* m / unit rounded to an integer, ties to even.
RoundHalfEven(m, unit) ==
    LET q == m \div unit
        r == m % unit
    IN  IF 2 * r > unit THEN q + 1
        ELSE IF 2 * r < unit THEN q
        ELSE IF q % 2 = 0 THEN q ELSE q + 1

\* format!("{:.p}", value): the sign, the integer part and p decimals.
Fixed(value, p) ==
    LET d == -value.e
        sign == IF value.neg /\ value.m # 0 THEN <<"-">> ELSE << >>
        n == IF d <= p THEN value.m
             ELSE IF d - p > NumDigits(value.m) THEN 0
             ELSE RoundHalfEven(value.m, Pow10(d - p))
        int == IF d <= 0 THEN
                   IF value.m = 0 THEN <<"0">>
                   ELSE NatToString(value.m) \o Zeros(value.e)
               ELSE IF d <= p THEN NatToString(n \div Pow10(d))
               ELSE NatToString(n \div Pow10(p))
        frac == IF d <= 0 THEN Zeros(p)
                ELSE IF d <= p THEN ZeroPadded(n % Pow10(d), d) \o Zeros(p - d)
                ELSE ZeroPadded(n % Pow10(p), p)
    IN  sign \o int \o (IF p > 0 THEN <<".">> \o frac ELSE << >>)

\* Mutant: the trailing dot is put between the number and the suffix.
Layout_DotBeforeSuffix(value, suffix, rest) ==
    IF rest <= 0 THEN Fixed(value, 0) \o SuffixToString(suffix)
    ELSE IF rest = 1 THEN Fixed(value, 0) \o <<".">> \o SuffixToString(suffix)
    ELSE Fixed(value, rest - 1) \o SuffixToString(suffix)

\* The last `match` of format_number, on min_width - digits.
Layout(value, suffix, rest) ==
    IF rest <= 0 THEN Fixed(value, 0) \o SuffixToString(suffix)
    ELSE IF rest = 1 THEN Fixed(value, 0) \o SuffixToString(suffix) \o <<".">>
    ELSE Fixed(value, rest - 1) \o SuffixToString(suffix)

\* format_number, with the values of its locals.
FormatNumberParts(raw, minWidth, minSuffix) ==
    LET level == ExpLevel(raw, minSuffix)
        value == Scale(raw, level)
        suffix == SuffixOfLevel(level)
        digits == IntegerDigits(value)
    IN  [exp_level |-> level, value |-> value, suffix |-> suffix,
         digits |-> digits, rest |-> minWidth - digits,
         out |-> Layout(value, suffix, minWidth - digits)]

FormatNumber(raw, minWidth, minSuffix) ==
    FormatNumberParts(raw, minWidth, minSuffix).out

\* The bit/byte conversion of a Float payload: value * 8. and value / 8.
ConvertFloat(own, shown, x) ==
    IF own = Unit("BytesPerSecond") /\ shown = Unit("BitsPerSecond")
    THEN Float(x.neg, x.m * 8, x.e)
    ELSE IF own = Unit("BitsPerSecond") /\ shown = Unit("BytesPerSecond")
         THEN Float(x.neg, x.m * 125, x.e - 3)
    ELSE x

-----------------------------------------------------------------------------
(* formatting/value.rs: Value and Value::format *)

\* Value::from_string, from_integer, from_float and the unit setters.
FromString(text) ==
    [unit |-> Unit("None"), min_width |-> 0, icon |-> None,
     value |-> [kind |-> "Text", text |-> text]]

FromInteger(n) ==
    [unit |-> Unit("None"), min_width |-> 2, icon |-> None,
     value |-> [kind |-> "Integer", int |-> n]]

FromFloat(x) ==
    [unit |-> Unit("None"), min_width |-> 3, icon |-> None,
     value |-> [kind |-> "Float", float |-> x]]

WithUnit(v, u) == [v EXCEPT !.unit = u]

WithIcon(v, icon) == [v EXCEPT !.icon = Some(icon)]

\* Variable: the display preferences, each an Option.
Variable(minWidth, padWith, unit, minSuffix) ==
    [min_width |-> minWidth, pad_with |-> padWith, unit |-> unit,
     min_suffix |-> minSuffix]

\* Value::format
Format(self, var) ==
    LET minWidth == UnwrapOr(var.min_width, self.min_width)
        padWith == UnwrapOr(var.pad_with, " ")
        unit == UnwrapOr(var.unit, self.unit)
        body ==
            CASE self.value.kind = "Text" ->
                   FormatText(self.value.text, minWidth, padWith)
              [] self.value.kind = "Integer" ->
                   FormatInteger(self.unit, unit, self.value.int, minWidth,
                                 padWith)
              [] self.value.kind = "Float" ->
                   FormatNumber(ConvertFloat(self.unit, unit, self.value.float),
                                minWidth, UnwrapOr(var.min_suffix, "Nano"))
    IN  UnwrapOr(self.icon, << >>) \o body \o UnitToString(unit)

-----------------------------------------------------------------------------
Next ==
    \/ NewSpawn
    \/ NewOk
    \/ NewErr
    \/ ProdLaunchOk
    \/ ProdLaunchFault
    \/ ProdReadLine
    \/ ProdParseFault
    \/ ProdStreamEnd
    \/ ProdLock
    \/ ProdStore
    \/ ProdSendOk
    \/ ProdSendFault
    \/ AccLock
    \/ AccEmpty
    \/ AccSetState
    \/ AccValues
    \/ AccRenderOk
    \/ AccRenderErr

Spec == Init /\ [][Next]_vars

TypeOK ==
    /\ cfg \in Configs
    /\ newPc \in {"start", "build", "ok", "err"}
    /\ prodPc \in {"unspawned", "starting", "read", "lock", "store", "send",
                   "terminated"}
    /\ fault \in {"none", "launch", "parse", "stream_end", "send"}
    /\ launches \in 0..1
    /\ lineNo \in 0..MaxLines
    /\ accAt \in 0..MaxLines
    /\ eof \in BOOLEAN
    /\ writes \in 0..MaxLines
    /\ sent \in 0..MaxLines
    /\ lockHolder \in {"none", "prod", "acc"}
    /\ accPc \in {"idle", "match", "values", "render"}
    /\ accRet \in {"none", "running", "Once"} \cup RenderErrors
    /\ rendered \in {"none", "Ok"} \cup RenderErrors
    /\ wState \in {"Idle", "Info", "Warning", "Critical"}

-----------------------------------------------------------------------------
(* blocks/radeontop.rs: deserializing one line into a RadeontopDataDump *)

\* The fields without a serde default.
RequiredFields ==
    {"timestamp", "bus", "gpu", "ee", "vgt", "ta", "sx", "sh", "spi", "sc",
     "pa", "db", "cb"}

\* The fields with #[serde(default = ..)].
OptionalFields == {"tc", "smx", "cr", "vram", "gtt", "mclk", "sclk"}

\* Ram::default and Clock::default
RamDefault == [used_percentage |-> 0, used_bytes |-> 0, max_bytes |-> 0]
ClockDefault == [used_percentage |-> 0, used_hz |-> 0, max_hz |-> 0]

\* The serde default of an optional field.
DefaultOf(f) ==
    CASE f \in {"vram", "gtt"} -> RamDefault
      [] f \in {"mclk", "sclk"} -> ClockDefault
      [] OTHER -> 0

\* Mutant: a line has to carry every field.
ParseLine_NoDefaults(line) ==
    IF RequiredFields \cup OptionalFields \subseteq DOMAIN line
    THEN Some(line)
    ELSE None

\* serde_json::from_str::<RadeontopDataDump>: a line is the function from
\* the keys of its JSON object to their values; None is the Err.
ParseLine(line) ==
    IF RequiredFields \subseteq DOMAIN line
    THEN Some([f \in RequiredFields \cup OptionalFields |->
                 IF f \in DOMAIN line THEN line[f] ELSE DefaultOf(f)])
    ELSE None

-----------------------------------------------------------------------------
(* Applying the functions of formatting/value.rs and the line parser *)

\* The largest min_width tried.
MaxWidth == 5

Widths == 0..MaxWidth

OptWidths == {None} \cup { Some(w) : w \in Widths }

UnitInputs ==
    { Unit(t) : t \in NamedUnits }
        \cup { Other(<<"r", "p", "m">>), Other(<<"B">>), Other(<<"DEG", "C">>) }

TextInputs ==
    { << >>, <<"0", "a">>, <<"E_ACUTE", "x">>,
      <<"l", "o", "n", "g", "e", "r", "!">> }

IntInputs == {-17, -9, -8, -1, 0, 7, 8, 123, 4099}

RateUnits == { Unit("BitsPerSecond"), Unit("BytesPerSecond"), Unit("Hertz") }

OptRateUnits == {None} \cup { Some(u) : u \in RateUnits }

Mantissas == {1, 12, 123, 999, 1234}

Exponents == {-11, -9, -7, -4, -3, -1, 0, 1, 3, 6, 9, 10, 13}

PositiveFloats == { Float(FALSE, m, e) : m \in Mantissas, e \in Exponents }

FloatInputs ==
    PositiveFloats \cup { Float(TRUE, x.m, x.e) : x \in PositiveFloats }
        \cup { Float(FALSE, 0, 0) }

FloorSuffixes == {"Nano", "One", "Kilo", "Tera"}

OptFloorSuffixes == {None, Some("One"), Some("Kilo")}

\* A line that carries every field.
FullLine ==
    [f \in RequiredFields \cup OptionalFields |->
       CASE f \in {"vram", "gtt"} ->
              [used_percentage |-> 25, used_bytes |-> 512, max_bytes |-> 2048]
         [] f \in {"mclk", "sclk"} ->
              [used_percentage |-> 50, used_hz |-> 600, max_hz |-> 1200]
         [] f = "timestamp" -> 1
         [] f = "bus" -> 3
         [] OTHER -> 91]

\* FullLine without some optional fields and without at most one required one.
LineInputs ==
    { [f \in (DOMAIN FullLine \ (opt \cup req)) |-> FullLine[f]] :
        opt \in SUBSET OptionalFields,
        req \in {{}} \cup { {f} : f \in RequiredFields } }

\* Unit::to_string, then Unit::from_string on its result.
UnitRoundTrip ==
    /\ call = NoCall
    /\ \E u \in UnitInputs :
         call' = [op |-> "unit", unit |-> u, token |-> UnitToString(u),
                  back |-> UnitFromString(UnitToString(u))]
    /\ UNCHANGED blockVars

\* Value::format on a Text payload.
FormatTextCall ==
    /\ call = NoCall
    /\ \E t \in TextInputs, w \in OptWidths, pd \in {None, Some("_")},
          ic \in {None, Some(<<"I">>)} :
         LET base == FromString(t)
             self == IF IsSome(ic) THEN WithIcon(base, Unwrap(ic)) ELSE base
             var == Variable(w, pd, None, None)
         IN  call' = [op |-> "format", self |-> self, var |-> var,
                      out |-> Format(self, var)]
    /\ UNCHANGED blockVars

\* Value::format on an Integer payload.
FormatIntegerCall ==
    /\ call = NoCall
    /\ \E n \in IntInputs, own \in RateUnits, shown \in OptRateUnits,
          w \in OptWidths, pd \in {None, Some("0")} :
         LET self == WithUnit(FromInteger(n), own)
             var == Variable(w, pd, shown, None)
         IN  call' = [op |-> "format", self |-> self, var |-> var,
                      out |-> Format(self, var)]
    /\ UNCHANGED blockVars

\* Value::format on a Float payload.
FormatFloatCall ==
    /\ call = NoCall
    /\ \E x \in FloatInputs, own \in RateUnits, shown \in OptRateUnits,
          w \in OptWidths, ms \in OptFloorSuffixes :
         LET self == WithUnit(FromFloat(x), own)
             var == Variable(w, None, shown, ms)
         IN  call' = [op |-> "format", self |-> self, var |-> var,
                      out |-> Format(self, var)]
    /\ UNCHANGED blockVars

\* format_number on x and on x * 1000.
FormatNumberScaled ==
    /\ call = NoCall
    /\ \E x \in PositiveFloats, w \in Widths, ms \in FloorSuffixes :
         call' = [op |-> "format_number_scaled", raw |-> x, min_width |-> w,
                  min_suffix |-> ms,
                  lo |-> FormatNumberParts(x, w, ms),
                  hi |-> FormatNumberParts(Float(x.neg, x.m, x.e + 3), w, ms)]
    /\ UNCHANGED blockVars

\* format_number on x and on -x.
FormatNumberNegated ==
    /\ call = NoCall
    /\ \E x \in PositiveFloats, w \in Widths, ms \in FloorSuffixes :
         call' = [op |-> "format_number_negated", raw |-> x, min_width |-> w,
                  min_suffix |-> ms,
                  pos |-> FormatNumberParts(x, w, ms),
                  neg |-> FormatNumberParts(Float(TRUE, x.m, x.e), w, ms)]
    /\ UNCHANGED blockVars

\* serde_json::from_str on one line.
ParseLineCall ==
    /\ call = NoCall
    /\ \E line \in LineInputs :
         call' = [op |-> "parse", line |-> line, res |-> ParseLine(line)]
    /\ UNCHANGED blockVars

FmtInit == Init /\ cfg = DefaultConfig

FmtNext ==
    \/ UnitRoundTrip
    \/ FormatTextCall
    \/ FormatIntegerCall
    \/ FormatFloatCall
    \/ FormatNumberScaled
    \/ FormatNumberNegated
    \/ ParseLineCall

FmtSpec == FmtInit /\ [][FmtNext]_vars

-----------------------------------------------------------------------------
(* Properties of the shared slot *)

\* The accessor is inside the `if let` body, working on the borrowed record.
InBody == accPc \in {"values", "render"}

\* The records the producer can have parsed so far.
ParsedSoFar == { Record(n, s) : n \in 1..lineNo, s \in Samples }

\* C1: under every interleaving, what Block::update reads from the slot is
\* None only before the first write, and otherwise one complete parsed
\* record, the one of the most recent completed write; the record stays the
\* same for the whole call, so state, value mapping and text come from it.
C1_LatestCompleteRecord ==
    /\ [](InBody => /\ seen = slot
                    /\ seen = lastDone
                    /\ stateFrom = seen)
    /\ [](accPc = "render" => values = Some(Values(Unwrap(lastDone))))
    /\ [][(accPc = "match" /\ accPc' # "match")
            => /\ seen' = lastDone
               /\ (seen' = None <=> writes = 0)
               /\ (IsSome(seen') => Unwrap(seen') \in ParsedSoFar)]_vars
    /\ [][(accPc = "render" /\ accRet' = "Once")
            => /\ textFrom' = lastDone
               /\ textFrom' = stateFrom
               /\ wText' = Some(Values(Unwrap(lastDone)))]_vars

\* The accessor renders the second record while the producer, holding the
\* third one, waits for the lock.
C1_Witness ==
    /\ accPc = "render"
    /\ writes = 2
    /\ IsSome(seen)
    /\ Unwrap(seen).timestamp = 2
    /\ prodPc = "lock"
    /\ IsSome(pending)

\* C2: a parse fault after a good record ends the sampling thread with the
\* lock not held and the slot still holding the last good record; nothing
\* changes the slot afterwards and the accessor can still lock and read it.
C2_ParseFaultKeepsSlot ==
    /\ []((fault = "parse" /\ writes >= 1)
            => /\ prodPc = "terminated"
               /\ lockHolder # "prod"
               /\ IsSome(slot)
               /\ slot = lastDone
               /\ Unwrap(slot).timestamp = writes
               /\ ((newPc = "ok" /\ accPc = "idle") => ENABLED AccLock)
               /\ ((accAt = lineNo /\ InBody) => seen = lastDone))
    /\ [][(fault' = "parse")
            => (slot' = slot /\ lastDone' = lastDone /\ writes' = writes)]_vars

\* An accessor call that started after the failing line reads the last good
\* record.
C2_Witness ==
    /\ fault = "parse"
    /\ writes = 2
    /\ accAt = lineNo
    /\ accPc = "idle"
    /\ accRet = "Once"
    /\ seen = lastDone
    /\ textFrom = lastDone
    /\ Unwrap(textFrom).timestamp = 2

-----------------------------------------------------------------------------
(* Severity *)

\* The tier classification as documented: a value equal to a cutoff belongs
\* to the higher tier.
InclusiveTier(x, info, warning, critical) ==
    IF x >= critical THEN 3
    ELSE IF x >= warning THEN 2
    ELSE IF x >= info THEN 1
    ELSE 0

\* C3: each ladder classifies the rounded percentage x as tier 0 when
\* x < info, 1 when info <= x < warning, 2 when warning <= x < critical and
\* 3 when x >= critical (a value equal to a cutoff is in the higher tier).
C3_InclusiveCutoffs ==
    IsSome(stateFrom) =>
        LET r == Unwrap(stateFrom) IN
        /\ gpuTier = InclusiveTier(RoundPct(r.gpu), cfg.gpu_info,
                                   cfg.gpu_warning, cfg.gpu_critical)
        /\ vramTier = InclusiveTier(RoundPct(r.vram), cfg.vram_info,
                                    cfg.vram_warning, cfg.vram_critical)

\* Number of the cutoffs a percentage has passed.
Passed(x, cutoffs) == Cardinality({ c \in cutoffs : x > c })

\* C4: whenever a record was read, the widget state is the larger of the
\* vram tier and the gpu tier of that record, mapped 0 -> Idle, 1 -> Info,
\* 2 -> Warning, 3 -> Critical, each ladder compared against its own cutoffs
\* only; the state is always one of the four.
C4_SeverityIsMaxOfLadders ==
    /\ wState \in {"Idle", "Info", "Warning", "Critical"}
    /\ IsSome(stateFrom) =>
        LET r == Unwrap(stateFrom)
            vt == Passed(RoundPct(r.vram),
                    {cfg.vram_info, cfg.vram_warning, cfg.vram_critical})
            gt == Passed(RoundPct(r.gpu),
                    {cfg.gpu_info, cfg.gpu_warning, cfg.gpu_critical})
            top == CHOOSE t \in {vt, gt} : t >= vt /\ t >= gt
        IN  /\ vramTier = vt
            /\ gpuTier = gt
            /\ wState = <<"Idle", "Info", "Warning", "Critical">>[top + 1]

\* vram at 95% (tier 3) and gpu at 10% (tier 0) give Critical.
C4_Witness ==
    /\ IsSome(stateFrom)
    /\ Unwrap(stateFrom).vram = 950
    /\ Unwrap(stateFrom).gpu = 100
    /\ vramTier = 3
    /\ gpuTier = 0
    /\ wState = "Critical"

-----------------------------------------------------------------------------
(* Faults of the sampling thread *)

\* C5 as stated: when the process fails to start, new does not return a
\* successfully constructed block.
C5_LaunchFaultFailsNew ==
    fault = "launch" => newPc # "ok"

\* C5 amended: a launch fault ends the sampling thread before any line is
\* read, any slot write or any notification, and ConfigBlock::new does not
\* report it: the fault leaves new where it is and new can still return Ok.
C5_LaunchFaultOnlyKillsThread ==
    /\ [](fault = "launch"
            => /\ prodPc = "terminated"
               /\ lineNo = 0 /\ writes = 0 /\ sent = 0
               /\ slot = None
               /\ (newPc = "build" => ENABLED NewOk))
    /\ [][(fault # "launch" /\ fault' = "launch") => newPc' = newPc]_vars

\* The launch failed, new returned Ok and update ran on the empty slot.
C5_Witness ==
    /\ fault = "launch"
    /\ newPc = "ok"
    /\ accRet = "Once"
    /\ seen = None

\* C6 as stated: the lock is held only during a single read or a single
\* write; the accessor does not hold it while computing the severity,
\* building the value mapping or rendering.
C6_LockOnlyForSingleAccess ==
    /\ lockHolder = "prod" => prodPc = "store"
    /\ lockHolder = "acc" => accPc = "match"

\* C6 amended: the producer holds the lock exactly while it performs the
\* single slot write (never while reading, parsing or sending); the
\* accessor holds it from taking the slot until the end of the `if let`
\* statement, that is also while it computes the severity, builds the value
\* mapping and calls the renderer, and never between calls.
C6_LockScopes ==
    /\ lockHolder = "prod" <=> prodPc = "store"
    /\ lockHolder = "acc" <=> accPc \in {"match", "values", "render"}

\* The accessor is rendering under the lock and the producer waits for it.
C6_Witness ==
    /\ lockHolder = "acc"
    /\ accPc = "render"
    /\ prodPc = "lock"

\* C7: each parsed record gets one slot write and then one notification:
\* the notifications never outnumber the writes, lag them by at most one,
\* and none is sent while the slot is still empty.
C7_WriteThenNotify ==
    /\ [](/\ sent <= writes
          /\ writes <= sent + 1
          /\ writes <= lineNo
          /\ (sent > 0 => IsSome(slot))
          /\ (prodPc = "read" => (writes = lineNo /\ sent = writes))
          /\ (prodPc = "send" => (writes = lineNo /\ writes = sent + 1)))
    /\ [][/\ (writes' # writes => (writes' = writes + 1 /\ sent = writes))
          /\ (sent' # sent => (sent' = sent + 1 /\ writes = sent'))]_vars

\* The third record is in the slot and its notification is about to be sent.
C7_Witness ==
    /\ prodPc = "send"
    /\ writes = 3
    /\ sent = 2

\* C8: update on an empty slot leaves the widget's text and state alone and
\* returns Ok(Some(Update::Once)).
C8_EmptySlotNoOutput ==
    [][(accPc = "match" /\ slot = None /\ accPc' # "match")
         => /\ wText' = wText
            /\ wState' = wState
            /\ accRet' = "Once"
            /\ accPc' = "idle"
            /\ lockHolder' = "none"]_vars

\* update has returned from a call that found the slot empty.
C8_Witness ==
    /\ accPc = "idle"
    /\ accRet = "Once"
    /\ seen = None
    /\ writes = 0
    /\ wText = None
    /\ wState = "Idle"

\* Starting -> Streaming -> Terminated as numbers.
Phase(pc) ==
    CASE pc = "unspawned" -> 0
      [] pc = "starting" -> 1
      [] pc \in {"read", "lock", "store", "send"} -> 2
      [] OTHER -> 3

\* C9: the sampling thread only moves forward through Starting, Streaming,
\* Terminated; every fault terminates it, and once terminated nothing more
\* happens: no relaunch, no slot write, no notification.
C9_TerminatedIsFinal ==
    /\ [](fault # "none" <=> prodPc = "terminated")
    /\ [](launches <= 1)
    /\ [][Phase(prodPc') >= Phase(prodPc)]_vars
    /\ [][prodPc = "terminated"
            => /\ prodPc' = "terminated"
               /\ fault' = fault
               /\ launches' = launches
               /\ slot' = slot
               /\ writes' = writes
               /\ sent' = sent]_vars

\* The thread ended on a parse fault after two records.
C9_Witness ==
    /\ prodPc = "terminated"
    /\ fault = "parse"
    /\ launches = 1
    /\ writes = 2
    /\ sent = 2

\* C10: when the process's output ends the thread ends with a fault, never
\* by returning normally, however many records came before.
C10_StreamEndIsFatal ==
    /\ eof => (prodPc = "terminated" /\ fault = "stream_end")
    /\ prodPc = "terminated" => fault # "none"

\* The output ended after two records.
C10_Witness ==
    /\ eof
    /\ writes = 2
    /\ sent = 2
    /\ fault = "stream_end"

-----------------------------------------------------------------------------
(* Failure paths of Block::update and ConfigBlock::new *)

\* C11: when FormatTemplate::render returns an error, update returns that
\* same error instead of an update, and the widget's text is not set.
C11_RenderErrorPropagates ==
    /\ [](accPc = "idle"
            => /\ (rendered \in RenderErrors <=> accRet \in RenderErrors)
               /\ (rendered \in RenderErrors => accRet = rendered))
    /\ [][(accPc = "render" /\ accPc' = "idle" /\ rendered' \in RenderErrors)
            => /\ accRet' = rendered'
               /\ wText' = wText
               /\ textFrom' = textFrom]_vars

\* update returned the renderer's error for the second record; the text is
\* still the one of the first.
C11_Witness ==
    /\ accPc = "idle"
    /\ rendered = "ErrBadValue"
    /\ accRet = "ErrBadValue"
    /\ IsSome(stateFrom) /\ Unwrap(stateFrom).timestamp = 2
    /\ IsSome(textFrom) /\ Unwrap(textFrom).timestamp = 1
    /\ wText = Some(Values(Unwrap(textFrom)))

\* C19: once ConfigBlock::new has returned an error, nothing it started
\* keeps running: no launch, no slot write and no notification follows.
C19_FailedNewLeavesNothingRunning ==
    [][newPc = "err"
         => /\ launches' = launches
            /\ lineNo' = lineNo
            /\ writes' = writes
            /\ sent' = sent]_vars

\* C20: between calls of update the widget's state and text come from the
\* same record, also after a call whose rendering failed.
C20_StateAndTextSameRecord ==
    (accPc = "idle" /\ IsSome(textFrom)) => stateFrom = textFrom

\* C21: Block::update only reads the slot. No step of a call changes the slot
\* (the record is neither taken nor cleared), a slot that holds a record
\* never becomes empty again, and a call that finds the record of an earlier
\* call still being the latest write sets the same severity from the same
\* two tiers and builds the same value mapping as that earlier call.
C21_AccessorOnlyReads ==
    /\ [][(accPc' # accPc) => (slot' = slot /\ slot' = lastDone')]_vars
    /\ [][IsSome(slot) => IsSome(slot')]_vars
    /\ [][(/\ accPc = "match" /\ accPc' # "match"
           /\ IsSome(stateFrom) /\ stateFrom = lastDone)
            => /\ accPc' = "values"
               /\ stateFrom' = stateFrom
               /\ gpuTier' = gpuTier
               /\ vramTier' = vramTier
               /\ wState' = wState]_vars
    /\ [][(/\ accPc = "values" /\ accPc' # "values"
           /\ IsSome(textFrom) /\ textFrom = lastDone)
            => values' = wText]_vars

\* A second call has built its value mapping from the record the call before
\* rendered, with no write in between: the mapping equals the one shown.
C21_Witness ==
    /\ accPc = "render"
    /\ writes = 1
    /\ IsSome(textFrom)
    /\ textFrom = lastDone
    /\ stateFrom = lastDone
    /\ slot = lastDone
    /\ IsSome(values)
    /\ values = wText
    /\ wState = StateOf(Max(vramTier, gpuTier))

-----------------------------------------------------------------------------
(* Properties of formatting/value.rs and of the line parser *)

Abs(n) == IF n < 0 THEN -n ELSE n

\* k copies of a char.
Copies(ch, k) == [i \in 1..(IF k > 0 THEN k ELSE 0) |-> ch]

\* The integer nearest to n / 8 between it and zero.
TowardsZero8(n) ==
    CHOOSE q \in -Abs(n)..Abs(n) :
        /\ q * n >= 0
        /\ Abs(8 * q) <= Abs(n)
        /\ Abs(n) - Abs(8 * q) < 8

IsFormatOf(kind) == call.op = "format" /\ call.self.value.kind = kind

\* The display unit and width Value::format is asked for.
ShownUnit == UnwrapOr(call.var.unit, call.self.unit)
ShownWidth == UnwrapOr(call.var.min_width, call.self.min_width)
ShownPad == UnwrapOr(call.var.pad_with, " ")

\* C12: Value::format on an integer n renders n * 8 for a BytesPerSecond
\* value shown as BitsPerSecond, n / 8 truncated towards zero for a
\* BitsPerSecond value shown as BytesPerSecond, and n itself for every other
\* pair of units; the label is the one of the display unit.
C12_BitByteConversion ==
    IsFormatOf("Integer") =>
        LET n == call.self.value.int
            own == call.self.unit
            number ==
                IF own.tag = "BytesPerSecond" /\ ShownUnit.tag = "BitsPerSecond"
                THEN n * 8
                ELSE IF own.tag = "BitsPerSecond"
                        /\ ShownUnit.tag = "BytesPerSecond"
                THEN TowardsZero8(n)
                ELSE n
            tail == IntToString(number) \o UnitToString(ShownUnit)
            cut == Len(call.out) - Len(tail)
        IN  /\ cut >= 0
            /\ SubSeq(call.out, cut + 1, Len(call.out)) = tail
            /\ \A i \in 1..cut : call.out[i] = ShownPad

\* -9 bits per second shown as bytes per second is -1.
C12_Witness ==
    /\ IsFormatOf("Integer")
    /\ call.self.value.int = -9
    /\ call.self.unit = Unit("BitsPerSecond")
    /\ call.var.unit = Some(Unit("BytesPerSecond"))
    /\ call.var.min_width = Some(0)
    /\ call.out = <<"-", "1", "B", "/", "s">>

\* C13: from_string(to_string(u)) = u for the nine named units, their
\* tokens are pairwise distinct, and to_string of Other(t) is t.
C13_UnitRoundTrip ==
    /\ \A a, b \in NamedUnits :
         a # b => UnitToString(Unit(a)) # UnitToString(Unit(b))
    /\ call.op = "unit" =>
         /\ call.unit.tag \in NamedUnits => call.back = call.unit
         /\ call.unit.tag = "Other" => call.token = call.unit.text

\* Bytes went to "B" and back.
C13_Witness ==
    /\ call.op = "unit"
    /\ call.unit = Unit("Bytes")
    /\ call.token = <<"B">>
    /\ call.back = Unit("Bytes")

\* What format_number computes for the Float payload of the call.
FloatParts ==
    FormatNumberParts(
        ConvertFloat(call.self.unit, ShownUnit, call.self.value.float),
        ShownWidth, UnwrapOr(call.var.min_suffix, "Nano"))

\* The number of a Float output: no decimals when rest <= 1, rest - 1 else.
FloatNumber ==
    Fixed(FloatParts.value,
          IF FloatParts.rest > 1 THEN FloatParts.rest - 1 ELSE 0)

\* C14 as stated: the output of a float is the number, with a trailing
\* decimal point when rest = 1, then the suffix token, then the unit label.
C14_DotBeforeSuffix ==
    IsFormatOf("Float") =>
        call.out = FloatNumber
                     \o (IF FloatParts.rest = 1 THEN <<".">> ELSE << >>)
                     \o SuffixToString(FloatParts.suffix)
                     \o UnitToString(ShownUnit)

\* C14 amended: the output of a float is the number, then the suffix token,
\* then a decimal point when rest = 1, then the unit label: the point
\* follows the suffix token.
C14_DotAfterSuffix ==
    IsFormatOf("Float") =>
        call.out = FloatNumber
                     \o SuffixToString(FloatParts.suffix)
                     \o (IF FloatParts.rest = 1 THEN <<".">> ELSE << >>)
                     \o UnitToString(ShownUnit)

\* 12340 Hz in the default width of 3 is "12K.Hz".
C14_Witness ==
    /\ IsFormatOf("Float")
    /\ call.self.value.float = Float(FALSE, 1234, 1)
    /\ FloatParts.rest = 1
    /\ FloatParts.suffix = "Kilo"
    /\ call.out = <<"1", "2", "K", ".", "H", "z">>

\* The place of a suffix in nano .. tera.
SuffixIndex(suffix) == CHOOSE i \in 1..Len(Suffixes) : Suffixes[i] = suffix

\* C15: the chosen suffix lies between the floor suffix and tera; for a
\* positive value whose own scale step is at or above the floor and below
\* tera, a 1000 times larger value gets the next suffix; at tera the suffix
\* stays and the integer part of the scaled value gets three digits longer.
C15_SuffixSteps ==
    /\ IsFormatOf("Float") =>
         /\ SuffixIndex(FloatParts.suffix)
              >= SuffixIndex(UnwrapOr(call.var.min_suffix, "Nano"))
         /\ SuffixIndex(FloatParts.suffix) <= SuffixIndex("Tera")
    /\ call.op = "format_number_scaled" =>
         LET step == Log10Floor(call.raw) \div 3
             floor == SuffixIndex(call.min_suffix)
         IN  /\ SuffixIndex(call.lo.suffix) \in floor..SuffixIndex("Tera")
             /\ SuffixIndex(call.hi.suffix) \in floor..SuffixIndex("Tera")
             /\ (step + 4 >= floor /\ step < 4)
                  => SuffixIndex(call.hi.suffix)
                       = SuffixIndex(call.lo.suffix) + 1
             /\ step >= 4
                  => /\ call.lo.suffix = "Tera"
                     /\ call.hi.suffix = "Tera"
                     /\ call.hi.digits = call.lo.digits + 3
                     /\ call.hi.value.m = call.lo.value.m
                     /\ call.hi.value.e = call.lo.value.e + 3

\* 123e3 is in kilo and 123e6 in mega.
C15_Witness ==
    /\ call.op = "format_number_scaled"
    /\ call.raw = Float(FALSE, 123, 3)
    /\ call.min_suffix = "One"
    /\ call.lo.suffix = "Kilo"
    /\ call.hi.suffix = "Mega"

\* C16: a line with every required field parses whatever optional fields
\* it omits, an omitted percentage being 0 and an omitted sub-record all
\* zero, the fields it carries keeping their values; a line without a
\* required field is a parse fault.
C16_OptionalFieldsDefault ==
    call.op = "parse" =>
        IF RequiredFields \subseteq DOMAIN call.line
        THEN /\ IsSome(call.res)
             /\ \A f \in RequiredFields \cup OptionalFields :
                  IF f \in DOMAIN call.line
                  THEN Unwrap(call.res)[f] = call.line[f]
                  ELSE Unwrap(call.res)[f] =
                         (IF f \in {"tc", "smx", "cr"} THEN 0
                          ELSE IF f \in {"vram", "gtt"}
                          THEN [used_percentage |-> 0, used_bytes |-> 0,
                                max_bytes |-> 0]
                          ELSE [used_percentage |-> 0, used_hz |-> 0,
                                max_hz |-> 0])
        ELSE call.res = None

\* A line with the required fields only: gpu is kept, vram is all zero.
C16_Witness ==
    /\ call.op = "parse"
    /\ DOMAIN call.line = RequiredFields
    /\ IsSome(call.res)
    /\ Unwrap(call.res)["gpu"] = 91
    /\ Unwrap(call.res)["vram"] = RamDefault
    /\ Unwrap(call.res)["tc"] = 0

\* The output of the call without the icon and the unit label.
Body ==
    SubSeq(call.out, Len(UnwrapOr(call.self.icon, << >>)) + 1,
           Len(call.out) - Len(UnitToString(ShownUnit)))

\* C17: a text of L chars is rendered as the text followed by
\* max(w - L, 0) fill chars, an integer as max(w - L, 0) fill chars followed
\* by its L decimal chars; the body is max(L, w) chars long.
C17_PadsToMinWidth ==
    /\ IsFormatOf("Text") =>
         LET t == call.self.value.text
         IN  /\ Body = t \o Copies(ShownPad, ShownWidth - Len(t))
             /\ Len(Body) = (IF Len(t) > ShownWidth THEN Len(t)
                             ELSE ShownWidth)
    /\ IsFormatOf("Integer") =>
         LET d == IntToString(ConvertInteger(call.self.unit, ShownUnit,
                                             call.self.value.int))
         IN  /\ Body = Copies(ShownPad, ShownWidth - Len(d)) \o d
             /\ Len(Body) = (IF Len(d) > ShownWidth THEN Len(d)
                             ELSE ShownWidth)

\* C18: for a non-zero v, format_number gives v and -v the same exp_level,
\* suffix and digit count, and outputs that differ by the leading minus.
C18_SignIndependentScale ==
    call.op = "format_number_negated" =>
        /\ call.neg.exp_level = call.pos.exp_level
        /\ call.neg.suffix = call.pos.suffix
        /\ call.neg.digits = call.pos.digits
        /\ call.neg.out = <<"-">> \o call.pos.out

====
